---------------------------- MODULE Spec2Model ----------------------------
(***************************************************************************)
(* Model of examples/shp_to_geojson.py: the conversion of the shape        *)
(* records of a shapefile into a GeoJSON feature collection                *)
(* (shp_to_geojson) and the batch caller that converts a list of           *)
(* shapefiles (batch_convert).                                             *)
(*                                                                         *)
(* Python values are modelled as tagged records, Python lists as           *)
(* sequences (index i of Python is index i+1 here), a Python dict as the   *)
(* sequence of its items in insertion order, and a dict object that is     *)
(* referenced from several places as an index into a heap of dicts.        *)
(***************************************************************************)
EXTENDS Integers, Sequences, FiniteSets, TLC

(***************************************************************************)
(* Bounds of the model.                                                    *)
(***************************************************************************)
MaxPts == 3
MaxParts == 3
MaxRow == 3
MaxFields == 2
MaxRecords == 3
MaxFiles == 2

SeqsUpTo(S, n) == UNION {[1..k -> S] : k \in 0..n}

Min(a, b) == IF a <= b THEN a ELSE b

(***************************************************************************)
(* Attribute values of a record: numbers, text and dates (the values of a  *)
(* 'D' field are date objects, the only ones with an isoformat method).    *)
(***************************************************************************)
PyInt(n) == [kind |-> "int", n |-> n]
PyStr(s) == [kind |-> "str", s |-> s]
PyDate(y, m, d) == [kind |-> "date", y |-> y, m |-> m, d |-> d]

Date1 == PyDate(2024, 1, 5)
Date2 == PyDate(1999, 12, 31)
Int7 == PyInt(7)
StrX == PyStr("x")

Values == {Int7, StrX, Date1, Date2}

FieldNames == {"a", "b"}

RECURSIVE Pad(_, _)
Pad(s, w) == IF Len(s) >= w THEN s ELSE Pad("0" \o s, w)

\* date.isoformat(): YYYY-MM-DD, zero padded.
IsoFormat(v) ==
    PyStr(Pad(ToString(v.y), 4) \o "-" \o Pad(ToString(v.m), 2) \o "-"
          \o Pad(ToString(v.d), 2))

\* hasattr(value, 'isoformat')
HasIsoformat(v) == v.kind = "date"

JsonValueRaw(v) == v

\* lines 76-79: the value stored for one attribute.
JsonValue(v) == IF HasIsoformat(v) THEN IsoFormat(v) ELSE v

(***************************************************************************)
(* A dict as the sequence of its items, in insertion order.  Assigning to  *)
(* a key that is present replaces its value and keeps its position.        *)
(***************************************************************************)
HasKey(d, k) == \E j \in 1..Len(d) : d[j].key = k

\* line 80: properties[field_name] = value
DictSet(d, k, v) ==
    IF HasKey(d, k)
    THEN [j \in 1..Len(d) |-> IF d[j].key = k THEN [key |-> k, value |-> v] ELSE d[j]]
    ELSE Append(d, [key |-> k, value |-> v])

(***************************************************************************)
(* lines 74-80: the attribute projection.  record[i] raises IndexError     *)
(* when the row has fewer values than there are field names; values of the *)
(* row beyond the field names are never read.                              *)
(***************************************************************************)
RECURSIVE ProjectFrom(_, _, _, _)
ProjectFrom(i, record, names, d) ==
    IF i > Len(names) THEN [ok |-> TRUE, dict |-> d]
    ELSE IF i > Len(record) THEN [ok |-> FALSE, dict |-> d]
    ELSE ProjectFrom(i + 1, record, names, DictSet(d, names[i], JsonValue(record[i])))

Project(record, names) == ProjectFrom(1, record, names, <<>>)

(***************************************************************************)
(* Geometry.  None is the record NoneValue.                                *)
(***************************************************************************)
NoneValue == [type |-> "None"]

\* points[start:end] for start, end >= 0: both are clipped to len(points).
PySlice(s, start, end) ==
    LET a == Min(start, Len(s))
        b == Min(end, Len(s))
    IN  IF a >= b THEN <<>> ELSE SubSeq(s, a + 1, b)

\* lines 102 and 121: the end of part i (i counted from 1 here).
PartEnd(shape, i) ==
    IF i < Len(shape.parts) THEN shape.parts[i + 1] ELSE Len(shape.points)

LinesToEnd(shape) ==
    [i \in 1..Len(shape.parts) |->
        PySlice(shape.points, shape.parts[i], Len(shape.points))]

\* lines 99-103
Lines(shape) ==
    [i \in 1..Len(shape.parts) |->
        PySlice(shape.points, shape.parts[i], PartEnd(shape, i))]

RingsOffByOne(shape) ==
    [i \in 1..Len(shape.parts) |->
        PySlice(shape.points, shape.parts[i], PartEnd(shape, i) + 1)]

\* lines 118-122
Rings(shape) ==
    [i \in 1..Len(shape.parts) |->
        PySlice(shape.points, shape.parts[i], PartEnd(shape, i))]

PointLast(shape) ==
    [type |-> "Point", coordinates |-> shape.points[Len(shape.points)]]

\* lines 85-89.  The reader decodes a Point record to exactly one point, so
\* points[0] exists for every record of shape type 1.
PointGeometry(shape) ==
    [type |-> "Point", coordinates |-> shape.points[1]]

PolylineAlwaysMulti(shape) ==
    [type |-> "MultiLineString", coordinates |-> Lines(shape)]

\* lines 91-107
PolylineGeometry(shape) ==
    IF Len(shape.parts) = 1
    THEN [type |-> "LineString", coordinates |-> shape.points]
    ELSE [type |-> "MultiLineString", coordinates |-> Lines(shape)]

\* lines 109-126
PolygonGeometry(shape) ==
    IF Len(shape.parts) = 1
    THEN [type |-> "Polygon", coordinates |-> <<shape.points>>]
    ELSE [type |-> "Polygon", coordinates |-> Rings(shape)]

GeometryKept(previous) == previous

\* line 83: geometry = None, at the start of every iteration.
GeometryReset(previous) == NoneValue

\* lines 85-126: the if/elif chain has no else; a shape type other than
\* 1, 3, 5 leaves geometry as line 83 set it.
BuildGeometry(shape, geometry0) ==
    IF shape.shapeType = 1 THEN PointGeometry(shape)
    ELSE IF shape.shapeType = 3 THEN PolylineGeometry(shape)
    ELSE IF shape.shapeType = 5 THEN PolygonGeometry(shape)
    ELSE geometry0

EmitsAlways(g) == TRUE

\* line 129: if geometry (None is falsy, a geometry dict has two keys).
Emits(g) == g # NoneValue

\* line 74: properties = {} binds the name to a dict object of its own.
NewDict(heap_, properties_) == Len(heap_) + 1

Store(heap_, ref, d) ==
    IF ref = Len(heap_) + 1 THEN Append(heap_, d) ELSE [heap_ EXCEPT ![ref] = d]

(***************************************************************************)
(* The inputs.                                                             *)
(***************************************************************************)
P1 == <<0, 0>>
P2 == <<1, 2>>

Coords == {P1, P2}

PointSeqs == SeqsUpTo(Coords, MaxPts)

PartSeqs == SeqsUpTo(0..MaxPts, MaxParts)

Shape(t, pts, prts) == [shapeType |-> t, points |-> pts, parts |-> prts]

NullShape == Shape(0, <<>>, <<>>)

\* What the reader decodes: a null shape (0) has no points, a Point (1) has
\* its point and no parts, a MultiPoint (8) has points and no parts, a
\* Polyline (3) or Polygon (5) has the points and part offsets of the file.
Shapes ==
    {NullShape}
    \cup {Shape(1, pts, <<>>) : pts \in {p \in PointSeqs : Len(p) >= 1}}
    \cup {Shape(8, pts, <<>>) : pts \in PointSeqs}
    \cup {Shape(t, pts, prts) : t \in {3, 5}, pts \in PointSeqs, prts \in PartSeqs}

Rows == SeqsUpTo(Values, MaxRow)

FieldLists == SeqsUpTo(FieldNames, MaxFields)

ShapeRec(s, r) == [shape |-> s, record |-> r]

\* The records of the whole-run specification: one shape of each kind.
PointA == Shape(1, <<P1>>, <<>>)
PointB == Shape(1, <<P2>>, <<>>)
TwoLines == Shape(3, <<P1, P2, P1>>, <<0, 2>>)
TwoRings == Shape(5, <<P1, P2, P1, P2>>, <<0, 2>>)

RunShapes == {NullShape, PointA, PointB, TwoLines, TwoRings}

RunRows == {<<Int7>>, <<Date1, StrX>>}

RunFieldLists == {<<"a">>, <<"a", "b">>, <<"a", "a">>}

RunRecords == {ShapeRec(s, r) : s \in RunShapes, r \in RunRows}

(***************************************************************************)
(* State.                                                                  *)
(***************************************************************************)
VARIABLES
    pc,            \* "batch", "open", "loop", "done", "crashed"
    nfiles,        \* len(shapefiles)
    fileIdx,       \* number of shapefiles the batch loop has taken
    returned,      \* what the finished calls of shp_to_geojson returned
    okPrinted,     \* per finished call: was "[OK] GeoJSON created" printed
    raised,        \* the exception that left shp_to_geojson, or "none"
    sourceOpened,  \* this call: shapefile.Reader returned
    field_names,   \* this call: field_names
    nrecs,         \* this call: len(sf.shapeRecords())
    idx,           \* this call: iterations of the record loop completed
    consumed,      \* this call: the records the loop has taken so far
    geometry,      \* this call: the local geometry
    properties,    \* this call: the local properties (a heap reference, 0: unbound)
    heap,          \* this call: the dict objects created
    features,      \* this call: geojson["features"]
    sinkOpens,     \* this call: calls of open(geojson_path, 'w')
    sinkDocs       \* this call: documents written to the sink

vars == <<pc, nfiles, fileIdx, returned, okPrinted, raised, sourceOpened,
          field_names, nrecs, idx, consumed, geometry, properties, heap,
          features, sinkOpens, sinkDocs>>

callVars == <<sourceOpened, field_names, nrecs, idx, consumed, geometry,
              properties, heap, features, sinkOpens, sinkDocs>>

FreshCall ==
    /\ sourceOpened' = FALSE
    /\ field_names' = <<>>
    /\ nrecs' = 0
    /\ idx' = 0
    /\ consumed' = <<>>
    /\ geometry' = NoneValue
    /\ properties' = 0
    /\ heap' = <<>>
    /\ features' = <<>>
    /\ sinkOpens' = 0
    /\ sinkDocs' = <<>>

\* batch_convert has globbed the shapefiles.  The single-file command line
\* (lines 185-189) is the case of one shapefile, whose path may be missing.
Init ==
    /\ pc = "batch"
    /\ nfiles \in 0..MaxFiles
    /\ fileIdx = 0
    /\ returned = <<>>
    /\ okPrinted = <<>>
    /\ raised = "none"
    /\ sourceOpened = FALSE
    /\ field_names = <<>>
    /\ nrecs = 0
    /\ idx = 0
    /\ consumed = <<>>
    /\ geometry = NoneValue
    /\ properties = 0
    /\ heap = <<>>
    /\ features = <<>>
    /\ sinkOpens = 0
    /\ sinkDocs = <<>>

(***************************************************************************)
(* batch_convert                                                           *)
(***************************************************************************)
\* lines 157-159: no shapefile found.
BatchEmpty ==
    /\ pc = "batch"
    /\ nfiles = 0
    /\ pc' = "done"
    /\ UNCHANGED <<nfiles, fileIdx, returned, okPrinted, raised>>
    /\ UNCHANGED callVars

\* lines 164-165 and 30-34: the next shapefile is passed to shp_to_geojson,
\* which finds that the path does not exist (any more), prints the error
\* and returns None; the batch loop goes on.
CallMissing ==
    /\ pc = "batch"
    /\ fileIdx < nfiles
    /\ fileIdx' = fileIdx + 1
    /\ returned' = Append(returned, "None")
    /\ okPrinted' = Append(okPrinted, FALSE)
    /\ pc' = "batch"
    /\ FreshCall
    /\ UNCHANGED <<nfiles, raised>>

\* lines 164-165 and 30-48: the path exists.
CallEnter ==
    /\ pc = "batch"
    /\ fileIdx < nfiles
    /\ fileIdx' = fileIdx + 1
    /\ pc' = "open"
    /\ FreshCall
    /\ UNCHANGED <<nfiles, returned, okPrinted, raised>>

\* line 51: shapefile.Reader raises; nothing in shp_to_geojson or in
\* batch_convert catches it.
OpenFails ==
    /\ pc = "open"
    /\ raised' = "ShapefileException"
    /\ pc' = "crashed"
    /\ UNCHANGED <<nfiles, fileIdx, returned, okPrinted>>
    /\ UNCHANGED callVars

\* lines 51-69: the reader opens, the field names are read, the document
\* is created with no feature and the records are loaded.
OpenSource ==
    /\ pc = "open"
    /\ \E names \in RunFieldLists, n \in 0..MaxRecords :
          /\ field_names' = names
          /\ nrecs' = n
    /\ sourceOpened' = TRUE
    /\ features' = <<>>
    /\ pc' = "loop"
    /\ UNCHANGED <<nfiles, fileIdx, returned, okPrinted, raised, idx, consumed,
                   geometry, properties, heap, sinkOpens, sinkDocs>>

\* lines 70-135: the body of the record loop, for the record taken.
ConvertRecord(shape_rec) ==
    /\ LET shape == shape_rec.shape
           record == shape_rec.record
           ref == NewDict(heap, properties)
           proj == Project(record, field_names)
           g == BuildGeometry(shape, GeometryReset(geometry))
       IN  /\ consumed' = Append(consumed, shape_rec)
           /\ IF ~proj.ok
              THEN /\ raised' = "IndexError"
                   /\ pc' = "crashed"
                   /\ UNCHANGED <<idx, geometry, properties, heap, features>>
              ELSE /\ properties' = ref
                   /\ heap' = Store(heap, ref, proj.dict)
                   /\ geometry' = g
                   /\ features' =
                         IF Emits(g)
                         THEN Append(features, [type |-> "Feature", geometry |-> g,
                                                properties |-> ref])
                         ELSE features
                   /\ idx' = idx + 1
                   /\ UNCHANGED <<pc, raised>>
    /\ UNCHANGED <<nfiles, fileIdx, returned, okPrinted, sourceOpened,
                   field_names, nrecs, sinkOpens, sinkDocs>>

\* line 69: the for loop takes the next record of the source, one of records.
LoopTakes(records) ==
    /\ pc = "loop"
    /\ idx < nrecs
    /\ \E shape_rec \in records : ConvertRecord(shape_rec)

LoopDoneEarly == idx >= 1 \/ idx = nrecs

\* line 69: the for loop ends when every record has been taken.
LoopDone == idx = nrecs

\* json.dump follows the references: the text holds each feature's
\* properties as the dict has them at that moment.
Document ==
    [type |-> "FeatureCollection",
     crs |-> "EPSG:4326",
     features |-> [j \in 1..Len(features) |->
                     [type |-> "Feature",
                      geometry |-> features[j].geometry,
                      properties |-> heap[features[j].properties]]]]

\* line 138: open(geojson_path, 'w') raises; nothing catches it.
WriteFails ==
    /\ pc = "loop"
    /\ LoopDone
    /\ sinkOpens' = sinkOpens + 1
    /\ raised' = "OSError"
    /\ pc' = "crashed"
    /\ UNCHANGED <<nfiles, fileIdx, returned, okPrinted, sourceOpened,
                   field_names, nrecs, idx, consumed, geometry, properties,
                   heap, features, sinkDocs>>

\* lines 138-145: the document is written, the confirmation is printed and
\* the path is returned to the batch loop.
WriteSink ==
    /\ pc = "loop"
    /\ LoopDone
    /\ sinkOpens' = sinkOpens + 1
    /\ sinkDocs' = Append(sinkDocs, Document)
    /\ returned' = Append(returned, "geojson_path")
    /\ okPrinted' = Append(okPrinted, TRUE)
    /\ pc' = "batch"
    /\ UNCHANGED <<nfiles, fileIdx, raised, sourceOpened, field_names, nrecs,
                   idx, consumed, geometry, properties, heap, features>>

\* lines 168-182: the loop over the shapefiles has ended.
BatchDone ==
    /\ pc = "batch"
    /\ nfiles > 0
    /\ fileIdx = nfiles
    /\ pc' = "done"
    /\ UNCHANGED <<nfiles, fileIdx, returned, okPrinted, raised>>
    /\ UNCHANGED callVars

Next ==
    \/ BatchEmpty
    \/ CallMissing
    \/ CallEnter
    \/ OpenFails
    \/ OpenSource
    \/ LoopTakes(RunRecords)
    \/ WriteFails
    \/ WriteSink
    \/ BatchDone

Spec == Init /\ [][Next]_vars

(***************************************************************************)
(* The geometry builder on every decoded shape: the state is that of a     *)
(* call whose source holds one record and no attribute field.              *)
(***************************************************************************)
InLoop(names) ==
    /\ pc = "loop"
    /\ nfiles = 1
    /\ fileIdx = 1
    /\ returned = <<>>
    /\ okPrinted = <<>>
    /\ raised = "none"
    /\ sourceOpened = TRUE
    /\ field_names = names
    /\ nrecs = 1
    /\ idx = 0
    /\ consumed = <<>>
    /\ geometry = NoneValue
    /\ properties = 0
    /\ heap = <<>>
    /\ features = <<>>
    /\ sinkOpens = 0
    /\ sinkDocs = <<>>

InitShape == InLoop(<<>>)

ShapeRecords == {ShapeRec(s, <<>>) : s \in Shapes}

NextShape == LoopTakes(ShapeRecords)

SpecShape == InitShape /\ [][NextShape]_vars

(***************************************************************************)
(* The attribute projection on every row and field-name list: the state is *)
(* that of a call whose source holds one Point record.                     *)
(***************************************************************************)
InitRow == \E names \in FieldLists : InLoop(names)

RowRecords == {ShapeRec(PointB, r) : r \in Rows}

NextRow == LoopTakes(RowRecords)

SpecRow == InitRow /\ [][NextRow]_vars

(***************************************************************************)
(* Vocabulary of the properties.                                           *)
(***************************************************************************)
\* Point, Polyline, Polygon.
SupportedTypes == {1, 3, 5}

LineTags == {"LineString", "MultiLineString"}

SourceFailures == {"ShapefileException", "IndexError"}

FatalErrors == {"ShapefileException", "OSError"}

Supported(shape_rec) == shape_rec.shape.shapeType \in SupportedTypes

\* The number of supported records among the first k records taken.
FeatureIndex(k) == Cardinality({j \in 1..k : Supported(consumed[j])})

HasFeature(k) == Supported(consumed[k]) /\ FeatureIndex(k) <= Len(features)

FeatureOf(k) == features[FeatureIndex(k)]

\* line is the run of the points at the Python indices lo <= i < hi that exist.
IsRun(line, points, lo, hi) ==
    /\ Len(line) = Cardinality({i \in 0..(Len(points) - 1) : lo <= i /\ i < hi})
    /\ \A j \in 1..Len(line) : line[j] = points[lo + j]

EndOfPart(shape, i) ==
    IF i < Len(shape.parts) THEN shape.parts[i + 1] ELSE Len(shape.points)

IsSplit(coordinates, shape) ==
    /\ Len(coordinates) = Len(shape.parts)
    /\ \A i \in 1..Len(shape.parts) :
          IsRun(coordinates[i], shape.points, shape.parts[i], EndOfPart(shape, i))

\* The data-model invariant of parts: at least one offset, every offset an
\* index of points, strictly increasing.
PartsInvariant(shape) ==
    /\ Len(shape.parts) >= 1
    /\ \A i \in 1..Len(shape.parts) :
          shape.parts[i] >= 0 /\ shape.parts[i] < Len(shape.points)
    /\ \A i \in 1..(Len(shape.parts) - 1) : shape.parts[i] < shape.parts[i + 1]

RECURSIVE Flatten(_)
Flatten(ss) ==
    IF ss = <<>> THEN <<>> ELSE Flatten(SubSeq(ss, 1, Len(ss) - 1)) \o ss[Len(ss)]

RECURSIVE SumLen(_)
SumLen(ss) ==
    IF ss = <<>> THEN 0 ELSE SumLen(SubSeq(ss, 1, Len(ss) - 1)) + Len(ss[Len(ss)])

\* The ISO-8601 text of the dates of Values.
IsoText(v) ==
    CASE v = Date1 -> "2024-01-05"
      [] v = Date2 -> "1999-12-31"

ExpectedValue(v) == IF v.kind = "date" THEN PyStr(IsoText(v)) ELSE v

\* d[k] of a dict that has the key k.
DictGet(d, k) == d[CHOOSE j \in 1..Len(d) : d[j].key = k].value

KeysOf(d) == [j \in 1..Len(d) |-> d[j].key]

RECURSIVE FirstOccurrences(_)
FirstOccurrences(s) ==
    IF s = <<>> THEN <<>>
    ELSE LET front == FirstOccurrences(SubSeq(s, 1, Len(s) - 1))
             last == s[Len(s)]
         IN  IF \E j \in 1..Len(front) : front[j] = last THEN front
             ELSE Append(front, last)

LastIndex(names, key) ==
    CHOOSE i \in 1..Len(names) :
        names[i] = key /\ \A j \in (i + 1)..Len(names) : names[j] # key

SameArity(shape_rec) == Len(shape_rec.record) = Len(field_names)

(***************************************************************************)
(* C1: a Polyline record with n >= 2 parts becomes a MultiLineString of    *)
(* exactly n lines, line i being the points from offset parts[i] up to     *)
(* the next offset (the end of points for the last part); when the offsets *)
(* start at 0, increase strictly and lie below len(points), the lines      *)
(* concatenated are points and their lengths sum to len(points).           *)
(***************************************************************************)
C1_MultiLineString ==
    \A k \in 1..idx :
        LET shape == consumed[k].shape IN
        (shape.shapeType = 3 /\ Len(shape.parts) >= 2) =>
            /\ HasFeature(k)
            /\ FeatureOf(k).geometry.type = "MultiLineString"
            /\ IsSplit(FeatureOf(k).geometry.coordinates, shape)
            /\ (PartsInvariant(shape) /\ shape.parts[1] = 0) =>
                  /\ Flatten(FeatureOf(k).geometry.coordinates) = shape.points
                  /\ SumLen(FeatureOf(k).geometry.coordinates) = Len(shape.points)

C1_Witness ==
    /\ idx = 1
    /\ consumed[1].shape.shapeType = 3
    /\ consumed[1].shape.parts = <<0, 1, 2>>
    /\ consumed[1].shape.points = <<P1, P2, P1>>
    /\ Len(features) = 1
    /\ features[1].geometry.type = "MultiLineString"

(***************************************************************************)
(* C2, as stated: a Polygon record whose parts satisfy the data-model      *)
(* invariant becomes a Polygon whose coordinates are the rings of the      *)
(* part-splitting rule, one per part.                                      *)
(***************************************************************************)
C2_RingsBySplitting ==
    \A k \in 1..idx :
        LET shape == consumed[k].shape IN
        (shape.shapeType = 5 /\ PartsInvariant(shape)) =>
            /\ HasFeature(k)
            /\ FeatureOf(k).geometry.type = "Polygon"
            /\ IsSplit(FeatureOf(k).geometry.coordinates, shape)

(***************************************************************************)
(* C2, amended: a Polygon record whose parts satisfy the data-model        *)
(* invariant becomes a Polygon (never a MultiPolygon); with two or more    *)
(* parts its coordinates are the rings of the part-splitting rule, with    *)
(* one part they are the whole of points as the only ring, whatever the    *)
(* offset, which is the ring of the part-splitting rule when parts[0] = 0. *)
(***************************************************************************)
C2_PolygonRings ==
    \A k \in 1..idx :
        LET shape == consumed[k].shape IN
        (shape.shapeType = 5 /\ PartsInvariant(shape)) =>
            /\ HasFeature(k)
            /\ FeatureOf(k).geometry.type = "Polygon"
            /\ Len(FeatureOf(k).geometry.coordinates) = Len(shape.parts)
            /\ Len(shape.parts) = 1 =>
                  FeatureOf(k).geometry.coordinates = <<shape.points>>
            /\ (Len(shape.parts) >= 2 \/ shape.parts[1] = 0) =>
                  IsSplit(FeatureOf(k).geometry.coordinates, shape)

C2_Witness ==
    /\ idx = 1
    /\ consumed[1].shape.shapeType = 5
    /\ consumed[1].shape.parts = <<0, 2>>
    /\ consumed[1].shape.points = <<P1, P2, P1>>
    /\ Len(features) = 1
    /\ features[1].geometry.coordinates = << <<P1, P2>>, <<P1>> >>

(***************************************************************************)
(* C3: the features are, in order, one for each record taken so far whose  *)
(* shape type is 1, 3 or 5 and none for any other record; the only error   *)
(* the loop raises comes from a row shorter than the field names, never    *)
(* from a shape type, and the loop goes on after an unsupported record.    *)
(***************************************************************************)
BelongsTo(feature, shape) ==
    \/ /\ shape.shapeType = 1
       /\ feature.geometry.type = "Point"
       /\ feature.geometry.coordinates = shape.points[1]
    \/ /\ shape.shapeType = 3
       /\ feature.geometry.type \in LineTags
    \/ /\ shape.shapeType = 5
       /\ feature.geometry.type = "Polygon"

C3_FeaturesFollowRecords ==
    /\ idx <= Len(consumed)
    /\ Len(features) = FeatureIndex(idx)
    /\ \A k \in 1..idx :
          Supported(consumed[k]) => BelongsTo(FeatureOf(k), consumed[k].shape)
    /\ \A j \in 1..Len(features) : features[j].type = "Feature"
    /\ IF raised = "IndexError"
       THEN /\ Len(consumed) = idx + 1
            /\ Len(consumed[idx + 1].record) < Len(field_names)
       ELSE Len(consumed) = idx
    /\ (pc = "loop" /\ idx >= 1 /\ ~Supported(consumed[idx])) => raised = "none"

C3_Witness ==
    /\ idx = 3
    /\ consumed[1].shape.shapeType = 1
    /\ consumed[2].shape.shapeType = 0
    /\ consumed[3].shape.shapeType = 5
    /\ Len(consumed[3].shape.parts) = 2
    /\ Len(features) = 2

(***************************************************************************)
(* C4, as stated: when the row has as many values as there are field       *)
(* names, the properties have exactly the field names as keys and the      *)
(* value under field name i is row[i], a date replaced by its ISO text.    *)
(***************************************************************************)
C4_ValueUnderEachName ==
    \A k \in 1..idx :
        (HasFeature(k) /\ SameArity(consumed[k])) =>
            LET d == heap[FeatureOf(k).properties] IN
            /\ {d[j].key : j \in 1..Len(d)}
                  = {field_names[i] : i \in 1..Len(field_names)}
            /\ \A i \in 1..Len(field_names) :
                  /\ HasKey(d, field_names[i])
                  /\ DictGet(d, field_names[i]) = ExpectedValue(consumed[k].record[i])

(***************************************************************************)
(* C4, amended: when the row has as many values as there are field names,  *)
(* the keys of the properties are the field names in field order, a name   *)
(* that occurs more than once being kept once, at its first place; the     *)
(* value under a name is row[i] for the last i with that name, a date      *)
(* replaced by its ISO text and every other value unchanged.  With         *)
(* pairwise distinct names the value under field name i is row[i].         *)
(***************************************************************************)
C4_Properties ==
    \A k \in 1..idx :
        (HasFeature(k) /\ SameArity(consumed[k])) =>
            LET d == heap[FeatureOf(k).properties] IN
            /\ KeysOf(d) = FirstOccurrences(field_names)
            /\ \A j \in 1..Len(d) :
                  d[j].value =
                     ExpectedValue(consumed[k].record[LastIndex(field_names, d[j].key)])

DateAndNumber == <<Date2, Int7>>

TextAndNumber ==
    <<[key |-> "a", value |-> PyStr("1999-12-31")], [key |-> "b", value |-> Int7]>>

C4_Witness ==
    /\ idx = 1
    /\ field_names = <<"a", "b">>
    /\ consumed[1].record = DateAndNumber
    /\ Len(features) = 1
    /\ heap[features[1].properties] = TextAndNumber

(***************************************************************************)
(* C5: a Polyline record with exactly one part becomes a LineString whose  *)
(* coordinates are the whole of points.                                    *)
(***************************************************************************)
C5_LineString ==
    \A k \in 1..idx :
        LET shape == consumed[k].shape IN
        (shape.shapeType = 3 /\ Len(shape.parts) = 1) =>
            /\ HasFeature(k)
            /\ FeatureOf(k).geometry.type = "LineString"
            /\ FeatureOf(k).geometry.coordinates = shape.points

C5_Witness ==
    /\ idx = 1
    /\ consumed[1].shape.shapeType = 3
    /\ consumed[1].shape.parts = <<0>>
    /\ consumed[1].shape.points = <<P1, P2, P2>>
    /\ Len(features) = 1
    /\ features[1].geometry.type = "LineString"
    /\ features[1].geometry.coordinates = <<P1, P2, P2>>

(***************************************************************************)
(* C6: a Point record becomes a Point whose coordinates are the first      *)
(* entry of points, one coordinate pair.                                   *)
(***************************************************************************)
C6_Point ==
    \A k \in 1..idx :
        LET shape == consumed[k].shape IN
        shape.shapeType = 1 =>
            /\ HasFeature(k)
            /\ FeatureOf(k).geometry.type = "Point"
            /\ FeatureOf(k).geometry.coordinates = shape.points[1]
            /\ FeatureOf(k).geometry.coordinates \in Coords

C6_Witness ==
    /\ idx = 1
    /\ consumed[1].shape.shapeType = 1
    /\ consumed[1].shape.points = <<P2>>
    /\ Len(features) = 1
    /\ features[1].geometry.type = "Point"
    /\ features[1].geometry.coordinates = <<1, 2>>

(***************************************************************************)
(* C7: a record whose row has more or fewer values than there are field    *)
(* names makes the projection fail: no such record completes its           *)
(* iteration, and none has a feature in a document that is written.        *)
(***************************************************************************)
C7_MismatchFails ==
    /\ \A k \in 1..idx : SameArity(consumed[k])
    /\ sinkDocs # <<>> =>
          \A k \in 1..Len(consumed) : Supported(consumed[k]) => SameArity(consumed[k])

(***************************************************************************)
(* C8: in a call the sink is opened at most once and written at most once, *)
(* and only after the source was opened and every record was converted;    *)
(* when the path is missing, the reader fails or a record's conversion     *)
(* fails, the sink is never opened and nothing is written.                 *)
(***************************************************************************)
C8_SinkAfterAllRecords ==
    /\ sinkOpens <= 1
    /\ Len(sinkDocs) <= sinkOpens
    /\ sinkOpens >= 1 =>
          /\ sourceOpened
          /\ idx = nrecs
          /\ Len(consumed) = nrecs
    /\ \A j \in 1..Len(sinkDocs) : Len(sinkDocs[j].features) = FeatureIndex(nrecs)
    /\ raised \in SourceFailures =>
          sinkOpens = 0 /\ sinkDocs = <<>>
    /\ (pc = "batch" /\ fileIdx >= 1 /\ returned[fileIdx] = "None") =>
          sinkOpens = 0 /\ sinkDocs = <<>> /\ ~sourceOpened

C8_Witness ==
    /\ Len(sinkDocs) = 1
    /\ nrecs = 2
    /\ Len(sinkDocs[1].features) = 2
    /\ sinkOpens = 1

(***************************************************************************)
(* C9: a call that hits a fatal error prints no success confirmation and   *)
(* its outcome differs from that of a success, and the batch goes on to    *)
(* every shapefile after it: no fatal error ends the batch while a         *)
(* shapefile is still to be converted.                                     *)
(***************************************************************************)
C9_BatchGoesOn ==
    /\ Len(okPrinted) = Len(returned)
    /\ \A i \in 1..Len(returned) : okPrinted[i] <=> returned[i] = "geojson_path"
    /\ raised \in FatalErrors =>
          /\ Len(returned) < fileIdx
          /\ fileIdx = nfiles

(***************************************************************************)
(* C10: the feature of a record depends on the record and the field names  *)
(* alone: whatever was converted before it, a supported record has the     *)
(* geometry and the properties that the record by itself determines, an    *)
(* unsupported record has none (it inherits no earlier geometry), equal    *)
(* records have equal features, and no two features share a properties     *)
(* dict.                                                                   *)
(***************************************************************************)
\* The geometry each shape of RunShapes has by itself.
PointAtP1 == [type |-> "Point", coordinates |-> P1]
PointAtP2 == [type |-> "Point", coordinates |-> P2]
LinesOfTwoLines ==
    [type |-> "MultiLineString", coordinates |-> << <<P1, P2>>, <<P1>> >>]
RingsOfTwoRings ==
    [type |-> "Polygon", coordinates |-> << <<P1, P2>>, <<P1, P2>> >>]

OwnGeometry(shape) ==
    CASE shape = PointA -> PointAtP1
      [] shape = PointB -> PointAtP2
      [] shape = TwoLines -> LinesOfTwoLines
      [] shape = TwoRings -> RingsOfTwoRings
      [] OTHER -> NoneValue

\* The properties each row of RunRows has by itself under the field names.
OwnProperties(record, names) ==
    [j \in 1..Len(FirstOccurrences(names)) |->
        [key |-> FirstOccurrences(names)[j],
         value |-> ExpectedValue(record[LastIndex(names, FirstOccurrences(names)[j])])]]

C10_FeatureOfRecordAlone ==
    /\ Len(features) = FeatureIndex(idx)
    /\ \A k \in 1..idx :
          Supported(consumed[k]) =>
             /\ FeatureOf(k).geometry = OwnGeometry(consumed[k].shape)
             /\ FeatureOf(k).properties \in 1..Len(heap)
             /\ heap[FeatureOf(k).properties]
                   = OwnProperties(consumed[k].record, field_names)
    /\ \A k1, k2 \in 1..idx :
          (Supported(consumed[k1]) /\ consumed[k1] = consumed[k2]) =>
             /\ FeatureOf(k1).geometry = FeatureOf(k2).geometry
             /\ heap[FeatureOf(k1).properties] = heap[FeatureOf(k2).properties]
    /\ \A i, j \in 1..Len(features) :
          i # j => features[i].properties # features[j].properties
    /\ \A j \in 1..Len(sinkDocs) : \A i \in 1..Len(features) :
          sinkDocs[j].features[i].properties = heap[features[i].properties]

C10_Witness ==
    /\ idx = 3
    /\ consumed[1].shape.shapeType = 3
    /\ consumed[2].shape.shapeType = 0
    /\ consumed[3] = consumed[1]
    /\ Len(features) = 2
    /\ features[1].geometry = features[2].geometry
    /\ features[1].properties # features[2].properties


=============================================================================
